---- MODULE Spec2Model ----
(***************************************************************************)
(* Model of the bloqade-analog-examples repository:                        *)
(*   - migrate.py: walk, the recursive key-prefix migrator, and the module *)
(*     level loop that rewrites every *.json file in place;                *)
(*   - docs/examples/*.py: the guarded emulator run / hardware submission, *)
(*     and unfinished_examples/example-3-time-sweep.py, which has no guard.*)
(* Strings are sequences of one-character strings, so that startswith and  *)
(* replace are computed character by character as Python computes them.    *)
(***************************************************************************)
EXTENDS Integers, Sequences, FiniteSets, TLC

VARIABLES
    data,       \* migrate.py: data, the tree json.load returned
    new_data,   \* migrate.py: new_data, the tree walk returned
    again,      \* new_data of the next run over the same document
    wpc,        \* position around the call of walk
    disk,       \* the script's directory: file name |-> [exists, text]
    disk0,      \* the directory as it was when the run began
    files,      \* migrate.py: files, the list glob.glob returned
    cur,        \* index in files of the for loop's current file
    pc,         \* position in the module-level code of migrate.py
    log,        \* what the run did to which file, in order
    ex,         \* the example script that is run
    epc,        \* position in the example script
    data_dir,   \* whether the directory "data" exists
    dfiles,     \* the files of "data": name |-> "absent", "placed" or "saved"
    seen,       \* what each os.path.isfile test found
    emu_runs,   \* number of emulator runs the script made
    submits,    \* number of run_async submissions to Aquila
    loaded      \* the files the script has loaded

wvars == <<data, new_data, again, wpc>>
mvars == <<disk, disk0, files, cur, pc, log>>
evars == <<ex, epc, data_dir, dfiles, seen, emu_runs, submits, loaded>>
vars == <<wvars, mvars, evars>>

(***************************************************************************)
(* Bounds of the model.                                                    *)
(***************************************************************************)
\* a mapping key is a concatenation of at most MaxKeySegs segments
MaxKeySegs == 2
\* a JSON tree has at most MaxNodes nodes (mappings, sequences, scalars)
MaxNodes == 3
\* the directory holds at most MaxFiles files named f<n>.json
MaxFiles == 2

(***************************************************************************)
(* Strings.                                                                *)
(***************************************************************************)
\* the literal "bloqade." of migrate.py line 13
OldPrefix == <<"b", "l", "o", "q", "a", "d", "e", ".">>
\* the literal "bloqade.analog." of migrate.py lines 11 and 14
NewPrefix == <<"b", "l", "o", "q", "a", "d", "e", ".", "a", "n", "a", "l", "o", "g", ".">>

\* str.startswith(p)
StartsWith(s, p) == Len(s) >= Len(p) /\ SubSeq(s, 1, Len(p)) = p

\* str.replace(old, new): every non-overlapping occurrence, leftmost first
RECURSIVE Replace(_, _, _)
Replace(s, old, new) ==
    IF Len(s) < Len(old) THEN s
    ELSE IF StartsWith(s, old)
         THEN new \o Replace(SubSeq(s, Len(old) + 1, Len(s)), old, new)
         ELSE <<Head(s)>> \o Replace(Tail(s), old, new)

(***************************************************************************)
(* JSON trees.  A node is a record [tag, str, keys, items]:                *)
(*   scalar   : tag in ScalarTags, str its text                            *)
(*   sequence : tag = "list", items its elements in order                  *)
(*   mapping  : tag = "dict", keys[i] |-> items[i] in insertion order,     *)
(*              keys pairwise distinct (a Python dict)                     *)
(***************************************************************************)
ScalarTags == {"number", "string", "bool", "null"}

Scalar(tag, text) == [tag |-> tag, str |-> text, keys |-> <<>>, items |-> <<>>]
List(items) == [tag |-> "list", str |-> <<>>, keys |-> <<>>, items |-> items]
Dict(keys, items) == [tag |-> "dict", str |-> <<>>, keys |-> keys, items |-> items]

IndexOf(seq, x) ==
    IF \E i \in 1..Len(seq) : seq[i] = x
    THEN CHOOSE i \in 1..Len(seq) : seq[i] = x
    ELSE 0

\* new_dict[key] = value: an existing key keeps its position and gets the
\* new value, a new key is appended
DictSet(d, key, value) ==
    LET i == IndexOf(d.keys, key) IN
    IF i = 0
    THEN Dict(Append(d.keys, key), Append(d.items, value))
    ELSE Dict(d.keys, [d.items EXCEPT ![i] = value])

\* a walk that does not test for the new prefix first
NewKeyAllOld(key) ==
    IF StartsWith(key, OldPrefix) THEN Replace(key, OldPrefix, NewPrefix) ELSE key

\* a walk that tests whether the key contains the old prefix
NewKeyContains(key) ==
    IF StartsWith(key, NewPrefix) THEN key ELSE Replace(key, OldPrefix, NewPrefix)

\* the key under which walk stores an entry (the if / elif / else on key)
NewKey(key) ==
    IF StartsWith(key, NewPrefix) THEN key
    ELSE IF StartsWith(key, OldPrefix) THEN Replace(key, OldPrefix, NewPrefix)
    ELSE key

RECURSIVE walk(_)

\* the for loop over data.items(), from entry n down to the first
RECURSIVE WalkItems(_, _)
WalkItems(d, n) ==
    IF n = 0 THEN Dict(<<>>, <<>>)
    ELSE DictSet(WalkItems(d, n - 1), NewKey(d.keys[n]), walk(d.items[n]))

WalkDict(d) == WalkItems(d, Len(d.keys))

\* a walk that copies a sequence without descending into it
WalkListShallow(d) == List(d.items)

\* a walk that returns the elements in reverse order
WalkListReversed(d) ==
    List([i \in 1..Len(d.items) |-> walk(d.items[Len(d.items) + 1 - i])])

\* [walk(item) for item in data]
WalkList(d) == List([i \in 1..Len(d.items) |-> walk(d.items[i])])

\* a walk that also migrates string values
WalkScalarRewrite(d) == Scalar(d.tag, NewKey(d.str))

\* else: return data
WalkScalar(d) == d

walk(d) ==
    IF d.tag = "dict" THEN WalkDict(d)
    ELSE IF d.tag = "list" THEN WalkList(d)
    ELSE WalkScalar(d)

(***************************************************************************)
(* The bounded set of input trees.                                         *)
(***************************************************************************)
Segs == {OldPrefix, <<"a", "n", "a", "l", "o", "g", ".">>}

RECURSIVE KeysOf(_)
KeysOf(n) ==
    IF n = 0 THEN {<<>>}
    ELSE LET K == KeysOf(n - 1) IN K \cup {k \o s : k \in K, s \in Segs}

Keys == KeysOf(MaxKeySegs) \ {<<>>}

Scalars == {Scalar("number", <<"1">>), Scalar("string", OldPrefix \o <<"x">>)}

NoDup(ks) == \A i, j \in 1..Len(ks) : ks[i] = ks[j] => i = j

KeySeqs(n) == {ks \in [1..n -> Keys] : NoDup(ks)}

(***************************************************************************)
(* SpecWalk: walk applied to one input tree, and applied once more to its  *)
(* own result (the migration run a second time over the same document).    *)
(***************************************************************************)
Unset == [tag |-> "unset", str |-> <<>>, keys |-> <<>>, items |-> <<>>]

Top(stack, k) == SubSeq(stack, Len(stack) - k + 1, Len(stack))
Rest(stack, k) == SubSeq(stack, 1, Len(stack) - k)

\* data = json.load(f): every tree of at most `left` more nodes, built in
\* post-order on a stack (a scalar is pushed; a sequence or a mapping takes
\* the top k trees as its elements or values)
RECURSIVE Parsed(_, _)
Parsed(stack, left) ==
    \/ /\ Len(stack) = 1
       /\ data = stack[1]
    \/ /\ left > 0
       /\ \E s \in Scalars : Parsed(Append(stack, s), left - 1)
    \/ /\ left > 0
       /\ \E k \in 0..Len(stack) :
             Parsed(Append(Rest(stack, k), List(Top(stack, k))), left - 1)
    \/ /\ left > 0
       /\ \E k \in 0..Len(stack) : \E ks \in KeySeqs(k) :
             Parsed(Append(Rest(stack, k), Dict(ks, Top(stack, k))), left - 1)

NoFile == [exists |-> FALSE, text |-> <<>>]

\* no example script is run
ExamplesIdle ==
    /\ ex = "none"
    /\ epc = "idle"
    /\ data_dir = FALSE
    /\ dfiles = <<>>
    /\ seen = <<>>
    /\ emu_runs = 0
    /\ submits = 0
    /\ loaded = {}

\* the migration loop at rest (while walk alone is exercised)
LoopIdle ==
    /\ disk = <<>>
    /\ disk0 = <<>>
    /\ files = <<>>
    /\ cur = 0
    /\ pc = "idle"
    /\ log = <<>>

WalkInit ==
    /\ Parsed(<<>>, MaxNodes)
    /\ LoopIdle
    /\ ExamplesIdle
    /\ new_data = Unset
    /\ again = Unset
    /\ wpc = "loaded"

\* new_data = walk(data)
Walk ==
    /\ wpc = "loaded"
    /\ new_data' = walk(data)
    /\ wpc' = "walked"
    /\ UNCHANGED <<data, again, mvars, evars>>

\* the next run loads what the first run dumped and walks it
WalkAgain ==
    /\ wpc = "walked"
    /\ again' = walk(new_data)
    /\ wpc' = "rewalked"
    /\ UNCHANGED <<data, new_data, mvars, evars>>

WalkNext == Walk \/ WalkAgain

SpecWalk == WalkInit /\ [][WalkNext]_vars

(***************************************************************************)
(* JSON text.  A file's text is a sequence of tokens; json.dump writes the *)
(* tokens of a tree and json.load parses tokens back into a tree (or       *)
(* fails).  In a mapping with a repeated key json.load keeps the last      *)
(* value.                                                                  *)
(***************************************************************************)
Tok(t, s) == [t |-> t, s |-> s]
LBrace == Tok("{", <<>>)
RBrace == Tok("}", <<>>)
LBrack == Tok("[", <<>>)
RBrack == Tok("]", <<>>)
Colon == Tok(":", <<>>)
Comma == Tok(",", <<>>)

RECURSIVE Dump(_)

\* the first n entries of a mapping or elements of a sequence, comma separated
RECURSIVE DumpItems(_, _)
DumpItems(t, n) ==
    IF n = 0 THEN <<>>
    ELSE DumpItems(t, n - 1)
         \o (IF n > 1 THEN <<Comma>> ELSE <<>>)
         \o (IF t.tag = "dict" THEN <<Tok("string", t.keys[n]), Colon>> ELSE <<>>)
         \o Dump(t.items[n])

\* json.dump(new_data, f): the text written
Dump(t) ==
    IF t.tag = "dict" THEN <<LBrace>> \o DumpItems(t, Len(t.items)) \o <<RBrace>>
    ELSE IF t.tag = "list" THEN <<LBrack>> \o DumpItems(t, Len(t.items)) \o <<RBrack>>
    ELSE <<Tok(t.tag, t.str)>>

ParseFail == [ok |-> FALSE, val |-> Unset, rest |-> <<>>]
ParseOk(val, rest) == [ok |-> TRUE, val |-> val, rest |-> rest]

RECURSIVE ParseValue(_), ParseElems(_, _), ParseMembers(_, _)

\* value ("," value)* "]"
ParseElems(toks, acc) ==
    LET v == ParseValue(toks) IN
    IF ~v.ok \/ v.rest = <<>> THEN ParseFail
    ELSE IF Head(v.rest).t = "," THEN ParseElems(Tail(v.rest), Append(acc, v.val))
    ELSE IF Head(v.rest).t = "]" THEN ParseOk(List(Append(acc, v.val)), Tail(v.rest))
    ELSE ParseFail

\* string ":" value ("," string ":" value)* "}"
ParseMembers(toks, acc) ==
    IF Len(toks) < 2 \/ toks[1].t # "string" \/ toks[2].t # ":" THEN ParseFail
    ELSE LET v == ParseValue(SubSeq(toks, 3, Len(toks))) IN
         IF ~v.ok \/ v.rest = <<>> THEN ParseFail
         ELSE IF Head(v.rest).t = ","
              THEN ParseMembers(Tail(v.rest), DictSet(acc, toks[1].s, v.val))
         ELSE IF Head(v.rest).t = "}"
              THEN ParseOk(DictSet(acc, toks[1].s, v.val), Tail(v.rest))
         ELSE ParseFail

ParseValue(toks) ==
    IF toks = <<>> THEN ParseFail
    ELSE IF Head(toks).t \in ScalarTags
         THEN ParseOk(Scalar(Head(toks).t, Head(toks).s), Tail(toks))
    ELSE IF Head(toks).t = "["
         THEN IF Len(toks) >= 2 /\ toks[2].t = "]"
              THEN ParseOk(List(<<>>), SubSeq(toks, 3, Len(toks)))
              ELSE ParseElems(Tail(toks), <<>>)
    ELSE IF Head(toks).t = "{"
         THEN IF Len(toks) >= 2 /\ toks[2].t = "}"
              THEN ParseOk(Dict(<<>>, <<>>), SubSeq(toks, 3, Len(toks)))
              ELSE ParseMembers(Tail(toks), Dict(<<>>, <<>>))
    ELSE ParseFail

\* json.load(f): the tree, or a failure (JSONDecodeError); text after the
\* value is a failure too
JsonLoad(text) ==
    LET r == ParseValue(text) IN
    IF r.ok /\ r.rest = <<>> THEN r ELSE ParseFail

(***************************************************************************)
(* The module-level code of migrate.py: glob the script's directory, then  *)
(* for each file load, walk, and dump in place.                            *)
(***************************************************************************)
JsonExt == <<".", "j", "s", "o", "n">>

FileName(n) == <<"f", ToString(n)>> \o JsonExt

\* files of the directory that are no f<n>.json: a text file and a hidden file
OtherNames == {<<"n", ".", "t", "x", "t">>, <<".", "h">> \o JsonExt}

Names == {FileName(n) : n \in 1..MaxFiles} \cup OtherNames

EndsWith(s, p) == Len(s) >= Len(p) /\ SubSeq(s, Len(s) - Len(p) + 1, Len(s)) = p

\* a glob that matches every file of the directory
GlobMatchesAll(name) == name = name

\* glob.glob(os.path.join(path, "*.json")): the name ends in ".json", and a
\* name with a leading dot is never matched by "*"
GlobMatches(name) == name # <<>> /\ Head(name) # "." /\ EndsWith(name, JsonExt)

File(text) == [exists |-> TRUE, text |-> text]

\* {"bloqade.x": 1}
TextOld == Dump(Dict(<<OldPrefix \o <<"x">>>>, <<Scalar("number", <<"1">>)>>))
\* {"bloqade.analog.x": ["bloqade."]}
TextNew ==
    Dump(Dict(<<NewPrefix \o <<"x">>>>, <<List(<<Scalar("string", OldPrefix)>>)>>))
\* {"bloqade.x": 1, "bloqade.x": null}
TextDup ==
    Dump(Dict(<<OldPrefix \o <<"x">>, OldPrefix \o <<"x">>>>,
              <<Scalar("number", <<"1">>), Scalar("null", <<>>)>>))
\* {"bloqade.x": 1      (cut short)
TextBad == SubSeq(TextOld, 1, Len(TextOld) - 1)

Contents(name) ==
    IF name \in OtherNames
    THEN {NoFile, File(TextOld), File(TextBad)}
    ELSE {NoFile, File(TextOld), File(TextNew), File(TextDup), File(TextBad)}

Perms(S) ==
    {f \in [1..Cardinality(S) -> S] : \A a, b \in 1..Cardinality(S) : f[a] = f[b] => a = b}

\* walk at rest (while the loop is exercised)
WalkIdle ==
    /\ data = Unset
    /\ new_data = Unset
    /\ again = Unset
    /\ wpc = "loop"

MigrateInit ==
    /\ disk \in {d \in [Names -> UNION {Contents(n) : n \in Names}] :
                    \A n \in Names : d[n] \in Contents(n)}
    /\ disk0 = disk
    /\ files = <<>>
    /\ cur = 0
    /\ pc = "glob"
    /\ log = <<>>
    /\ WalkIdle
    /\ ExamplesIdle

\* for file in files: the next file, or the end of the loop
Advance(k, fs) == IF k > Len(fs) THEN "done" ELSE "load"

Event(op) == [op |-> op, file |-> files[cur]]

\* files = glob.glob(...), in the arbitrary order of the directory listing
Glob ==
    /\ pc = "glob"
    /\ files' \in Perms({n \in Names : disk[n].exists /\ GlobMatches(n)})
    /\ cur' = 1
    /\ pc' = Advance(1, files')
    /\ UNCHANGED <<disk, disk0, log, wvars, evars>>

\* with open(file, "r") as f: data = json.load(f)
Load ==
    /\ pc = "load"
    /\ JsonLoad(disk[files[cur]].text).ok
    /\ data' = JsonLoad(disk[files[cur]].text).val
    /\ pc' = "walk"
    /\ log' = Append(log, Event("read"))
    /\ UNCHANGED <<disk, disk0, files, cur, new_data, again, wpc, evars>>

\* a run that skips a file json.load cannot parse and goes on
LoadErrorSkipped ==
    /\ pc = "load"
    /\ ~JsonLoad(disk[files[cur]].text).ok
    /\ cur' = cur + 1
    /\ pc' = Advance(cur + 1, files)
    /\ log' = Append(log, Event("error"))
    /\ UNCHANGED <<disk, disk0, files, wvars, evars>>

\* json.load raises: nothing catches it, the run ends
LoadError ==
    /\ pc = "load"
    /\ ~JsonLoad(disk[files[cur]].text).ok
    /\ pc' = "failed"
    /\ log' = Append(log, Event("error"))
    /\ UNCHANGED <<disk, disk0, files, cur, wvars, evars>>

\* new_data = walk(data)
Transform ==
    /\ pc = "walk"
    /\ new_data' = walk(data)
    /\ pc' = "open_w"
    /\ log' = Append(log, Event("walk"))
    /\ UNCHANGED <<disk, disk0, files, cur, data, again, wpc, evars>>

\* a file opened in mode "a" keeps its text
OpenedForAppend(text) == text

\* what open(file, "w") leaves of the file's text: nothing
OpenedForWrite(text) == SubSeq(text, 1, 0)

\* with open(file, "w") as f: the file is truncated
OpenWrite ==
    /\ pc = "open_w"
    /\ disk' = [disk EXCEPT ![files[cur]] = File(OpenedForWrite(disk[files[cur]].text))]
    /\ pc' = "dump"
    /\ log' = Append(log, Event("open_w"))
    /\ UNCHANGED <<disk0, files, cur, wvars, evars>>

\* json.dump(new_data, f), the file is closed, and the loop goes on
DumpFile ==
    /\ pc = "dump"
    /\ disk' = [disk EXCEPT ![files[cur]] = File(disk[files[cur]].text \o Dump(new_data))]
    /\ cur' = cur + 1
    /\ pc' = Advance(cur + 1, files)
    /\ log' = Append(log, Event("write"))
    /\ UNCHANGED <<disk0, files, wvars, evars>>

\* open(file, "w") raises (the file is read-only): the file is as it was,
\* nothing catches the error, the run ends
OpenWriteError ==
    /\ pc = "open_w"
    /\ pc' = "failed"
    /\ log' = Append(log, Event("open_error"))
    /\ UNCHANGED <<disk, disk0, files, cur, wvars, evars>>

\* a write of json.dump raises (the disk is full): the chunks written so far,
\* none or some but not all, stay in the file, and the run ends
DumpError ==
    /\ pc = "dump"
    /\ \E k \in 0..(Len(Dump(new_data)) - 1) :
          disk' = [disk EXCEPT ![files[cur]] =
                      File(disk[files[cur]].text \o SubSeq(Dump(new_data), 1, k))]
    /\ pc' = "failed"
    /\ log' = Append(log, Event("write_error"))
    /\ UNCHANGED <<disk0, files, cur, wvars, evars>>

MigrateNext ==
    \/ Glob \/ Load \/ LoadError \/ Transform \/ OpenWrite \/ DumpFile
    \/ OpenWriteError \/ DumpError

Spec == MigrateInit /\ [][MigrateNext]_vars

\* the interpreter runs the script to its end: a step that can be taken is taken
FairSpec == Spec /\ WF_vars(MigrateNext)

(***************************************************************************)
(* The example scripts.  Those of docs/examples make the emulator run and   *)
(* the hardware submission only if the result file is not in "data", then  *)
(* load both files.  unfinished_examples/example-3-time-sweep.py runs the  *)
(* emulator at once, submits nothing (that code is commented out) and      *)
(* loads its job file from docs/examples.                                  *)
(***************************************************************************)
CompleteExamples == {"floquet", "ramsey", "multi-qubit-blockaded"}

Scripts == CompleteExamples \cup {"time-sweep"}

\* data/<script>-emulation.json
EmuFilename(script) == <<script, "emulation">>
\* data/<script>-job.json, and docs/examples/example-3-time-sweep-job.json
HardwareFilename(script) == <<script, "job">>

\* the files the complete examples keep in "data"
DataFiles ==
    {EmuFilename(sc) : sc \in CompleteExamples}
        \cup {HardwareFilename(sc) : sc \in CompleteExamples}

AllFiles == DataFiles \cup {HardwareFilename("time-sweep")}

\* where a script begins: the complete examples with the import cell
FirstStep(script) == IF script \in CompleteExamples THEN "import" ELSE "emu_run"

\* what follows the emulator run: save(emu_batch, emu_filename) in the
\* complete examples, the load of the job file in example-3-time-sweep.py
AfterEmuRun(script) == IF script \in CompleteExamples THEN "emu_save" ELSE "load_hw"

\* os.path.isfile(filename)
IsFile(filename) == dfiles[filename] # "absent"

\* a script that runs whether or not the file is there
ShouldRunAlways(filename) == filename = filename

\* if not os.path.isfile(filename):
ShouldRun(filename) == ~IsFile(filename)

Sight(filename) == IF dfiles[filename] = "absent" THEN "absent" ELSE "present"

ExampleInit ==
    /\ ex \in Scripts
    /\ epc = FirstStep(ex)
    /\ data_dir \in BOOLEAN
    /\ dfiles \in [AllFiles -> {"absent", "placed"}]
    /\ ~data_dir => \A f \in DataFiles : dfiles[f] = "absent"
    /\ seen = [k \in {"emulation", "job"} |-> "unchecked"]
    /\ emu_runs = 0
    /\ submits = 0
    /\ loaded = {}
    /\ WalkIdle
    /\ LoopIdle

\* if not os.path.isdir("data"): os.mkdir("data")
MakeDataDir ==
    /\ epc = "import"
    /\ data_dir' = TRUE
    /\ epc' = "emu_check"
    /\ UNCHANGED <<ex, dfiles, seen, emu_runs, submits, loaded, wvars, mvars>>

\* if not os.path.isfile(emu_filename):
EmuCheck ==
    /\ epc = "emu_check"
    /\ seen' = [seen EXCEPT !["emulation"] = Sight(EmuFilename(ex))]
    /\ epc' = IF ShouldRun(EmuFilename(ex)) THEN "emu_run" ELSE "hw_check"
    /\ UNCHANGED <<ex, data_dir, dfiles, emu_runs, submits, loaded, wvars, mvars>>

\* emu_batch = <job>.bloqade.python().run(10000), and in
\* example-3-time-sweep.py emu_job = <job>.braket.local_emulator().run(...)
EmuRun ==
    /\ epc = "emu_run"
    /\ emu_runs' = emu_runs + 1
    /\ epc' = AfterEmuRun(ex)
    /\ UNCHANGED <<ex, data_dir, dfiles, seen, submits, loaded, wvars, mvars>>

\* save(emu_batch, emu_filename)
EmuSave ==
    /\ epc = "emu_save"
    /\ dfiles' = [dfiles EXCEPT ![EmuFilename(ex)] = "saved"]
    /\ epc' = "hw_check"
    /\ UNCHANGED <<ex, data_dir, seen, emu_runs, submits, loaded, wvars, mvars>>

\* if not os.path.isfile(hardware_filename):
HardwareCheck ==
    /\ epc = "hw_check"
    /\ seen' = [seen EXCEPT !["job"] = Sight(HardwareFilename(ex))]
    /\ epc' = IF ShouldRun(HardwareFilename(ex)) THEN "hw_submit" ELSE "load_emu"
    /\ UNCHANGED <<ex, data_dir, dfiles, emu_runs, submits, loaded, wvars, mvars>>

\* batch = <job>.parallelize(24).braket.aquila().run_async(shots=...)
HardwareSubmit ==
    /\ epc = "hw_submit"
    /\ submits' = submits + 1
    /\ epc' = "hw_save"
    /\ UNCHANGED <<ex, data_dir, dfiles, seen, emu_runs, loaded, wvars, mvars>>

\* run_async raises (no credentials, no network): the script ends there
HardwareSubmitError ==
    /\ epc = "hw_submit"
    /\ epc' = "failed"
    /\ UNCHANGED <<ex, data_dir, dfiles, seen, emu_runs, submits, loaded, wvars, mvars>>

\* save(batch, hardware_filename)
HardwareSave ==
    /\ epc = "hw_save"
    /\ dfiles' = [dfiles EXCEPT ![HardwareFilename(ex)] = "saved"]
    /\ epc' = "load_emu"
    /\ UNCHANGED <<ex, data_dir, seen, emu_runs, submits, loaded, wvars, mvars>>

\* emu_batch = load(emu_filename); a file that is not there makes load raise
LoadEmu ==
    /\ epc = "load_emu"
    /\ loaded' = IF IsFile(EmuFilename(ex)) THEN loaded \cup {EmuFilename(ex)} ELSE loaded
    /\ epc' = IF IsFile(EmuFilename(ex)) THEN "load_hw" ELSE "failed"
    /\ UNCHANGED <<ex, data_dir, dfiles, seen, emu_runs, submits, wvars, mvars>>

\* hardware_batch = load(hardware_filename)
LoadHardware ==
    /\ epc = "load_hw"
    /\ loaded' = IF IsFile(HardwareFilename(ex))
                 THEN loaded \cup {HardwareFilename(ex)} ELSE loaded
    /\ epc' = IF IsFile(HardwareFilename(ex)) THEN "done" ELSE "failed"
    /\ UNCHANGED <<ex, data_dir, dfiles, seen, emu_runs, submits, wvars, mvars>>

\* the reader downloads the job file and places it in "data" while the
\* script runs
PlaceJobFile ==
    /\ epc \notin {"import", "done", "failed"}
    /\ dfiles[HardwareFilename(ex)] = "absent"
    /\ dfiles' = [dfiles EXCEPT ![HardwareFilename(ex)] = "placed"]
    /\ UNCHANGED <<ex, epc, data_dir, seen, emu_runs, submits, loaded, wvars, mvars>>

ExampleNext ==
    \/ MakeDataDir \/ EmuCheck \/ EmuRun \/ EmuSave
    \/ HardwareCheck \/ HardwareSubmit \/ HardwareSubmitError \/ HardwareSave
    \/ LoadEmu \/ LoadHardware \/ PlaceJobFile

SpecExample == ExampleInit /\ [][ExampleNext]_vars

(***************************************************************************)
(* Properties of walk, checked under SpecWalk.                             *)
(***************************************************************************)
Walked == wpc # "loaded"

IsOldOnly(key) == StartsWith(key, OldPrefix) /\ ~StartsWith(key, NewPrefix)
IsOther(key) == ~StartsWith(key, OldPrefix)

\* the key with its leading "bloqade." cut off and "bloqade.analog." put in front
PrefixSwapped(key) == NewPrefix \o SubSeq(key, Len(OldPrefix) + 1, Len(key))

HasKey(d, key) == \E j \in 1..Len(d.keys) : d.keys[j] = key

\* the value stored under key in mapping d
ValueAt(d, key) == d.items[IndexOf(d.keys, key)]

\* C1: an old-prefix key of the input mapping is in the output with the prefix
\* replaced at the start of the key only, the rest of the key as it was
C1_PrefixOnlyAtStart ==
    (Walked /\ data.tag = "dict") =>
        \A i \in 1..Len(data.keys) :
            IsOldOnly(data.keys[i]) => HasKey(new_data, PrefixSwapped(data.keys[i]))

RECURSIVE SameShape(_, _)
SameShape(a, b) ==
    /\ a.tag = b.tag
    /\ a.tag \in ScalarTags => a = b
    /\ Len(a.items) = Len(b.items)
    /\ \A i \in 1..Len(a.items) : SameShape(a.items[i], b.items[i])

\* C2: the output of walk has the shape of its input: every mapping has as
\* many entries, every sequence the same length and order, every scalar is at
\* its position
C2_SameShape == Walked => SameShape(data, new_data)

\* C3: walk is idempotent: walking the result of walk changes nothing
C3_Idempotent == wpc = "rewalked" => again = new_data

C3_Witness ==
    /\ wpc = "rewalked"
    /\ data.tag = "dict"
    /\ \E i \in 1..Len(data.keys) :
          IsOldOnly(data.keys[i]) /\ ~HasKey(data, NewKey(data.keys[i]))
    /\ new_data # data

\* C4: a key of the input mapping that starts with the new prefix is a key of
\* the output mapping, and its value there is walk of its input value
C4_NewPrefixKept ==
    (Walked /\ data.tag = "dict") =>
        \A i \in 1..Len(data.keys) :
            StartsWith(data.keys[i], NewPrefix) =>
                /\ HasKey(new_data, data.keys[i])
                /\ ValueAt(new_data, data.keys[i]) = walk(data.items[i])

RECURSIVE AllKeys(_)
AllKeys(t) ==
    {t.keys[i] : i \in 1..Len(t.keys)}
        \cup UNION {AllKeys(t.items[i]) : i \in 1..Len(t.items)}

\* C5: at every depth of the output no mapping key starts with "bloqade."
\* unless it starts with "bloqade.analog."
C5_NoOldKeyLeft ==
    Walked => \A k \in AllKeys(new_data) :
                  StartsWith(k, OldPrefix) => StartsWith(k, NewPrefix)

C5_Witness ==
    /\ wpc = "walked"
    /\ data.tag = "list"
    /\ Len(data.items) = 1
    /\ data.items[1].tag = "dict"
    /\ Len(data.items[1].keys) = 1
    /\ IsOldOnly(data.items[1].keys[1])
    /\ new_data # data

\* the scalar leaves of a tree, each with the positions on the way to it
\* (0 for a step into a mapping, the index for a step into a sequence)
RECURSIVE LeavesAt(_)
LeavesAt(t) ==
    IF t.tag \in ScalarTags THEN {[at |-> <<>>, leaf |-> t]}
    ELSE UNION {{[at |-> <<IF t.tag = "list" THEN i ELSE 0>> \o l.at, leaf |-> l.leaf] :
                    l \in LeavesAt(t.items[i])} : i \in 1..Len(t.items)}

\* C6: walk never rewrites a value: every scalar leaf of the output is a
\* scalar leaf of the input, unchanged and at the same positions
C6_ValuesUnchanged == Walked => LeavesAt(new_data) \subseteq LeavesAt(data)

C6_Witness ==
    /\ wpc = "walked"
    /\ data.tag = "dict"
    /\ Len(data.keys) = 1
    /\ IsOldOnly(data.keys[1])
    /\ data.items[1].tag = "string"
    /\ StartsWith(data.items[1].str, OldPrefix)
    /\ new_data.items[1] = data.items[1]
    /\ new_data.keys[1] # data.keys[1]

\* C7: a key that starts with neither prefix is kept as it is, and its value
\* in the output is walk of its input value
C7_OtherKeyKept ==
    (Walked /\ data.tag = "dict") =>
        \A i \in 1..Len(data.keys) :
            IsOther(data.keys[i]) =>
                /\ HasKey(new_data, data.keys[i])
                /\ ValueAt(new_data, data.keys[i]) = walk(data.items[i])

Contains(s, p) == \E i \in 1..Len(s) : StartsWith(SubSeq(s, i, Len(s)), p)

C7_Witness ==
    /\ wpc = "walked"
    /\ data.tag = "dict"
    /\ Len(data.keys) = 1
    /\ IsOther(data.keys[1])
    /\ Contains(data.keys[1], OldPrefix)
    /\ data.items[1].tag = "dict"
    /\ new_data.keys = data.keys
    /\ new_data.items[1] # data.items[1]

\* C8: for a sequence, walk returns a sequence of the same length whose i-th
\* element is walk of the i-th element of the input
C8_SequenceElementwise ==
    (Walked /\ data.tag = "list") =>
        /\ new_data.tag = "list"
        /\ Len(new_data.items) = Len(data.items)
        /\ \A i \in 1..Len(data.items) : new_data.items[i] = walk(data.items[i])

C8_Witness ==
    /\ wpc = "walked"
    /\ data.tag = "list"
    /\ Len(data.items) = 2
    /\ data.items[1] # data.items[2]
    /\ Len(new_data.items) = 2

(***************************************************************************)
(* Properties of the example scripts, checked under SpecExample.           *)
(***************************************************************************)
\* the emulator run and the hardware submission are made only if the file
\* was absent when it was tested; a file that was present when tested is
\* neither regenerated nor overwritten; and a script that reaches a load
\* finds the file there
GuardedRuns ==
    /\ emu_runs > 0 => seen["emulation"] = "absent"
    /\ submits > 0 => seen["job"] = "absent"
    /\ emu_runs <= 1 /\ submits <= 1
    /\ seen["emulation"] = "present" =>
           emu_runs = 0 /\ dfiles[<<ex, "emulation">>] = "placed"
    /\ seen["job"] = "present" =>
           submits = 0 /\ dfiles[<<ex, "job">>] = "placed"
    /\ epc = "load_emu" => dfiles[<<ex, "emulation">>] # "absent"
    /\ epc = "load_hw" => dfiles[<<ex, "job">>] # "absent"
    /\ \A f \in loaded : dfiles[f] # "absent"

\* C9 as stated: GuardedRuns holds in each example script
C9_EachExampleScript == GuardedRuns

\* C9 as amended: GuardedRuns holds in each example script of docs/examples
\* (floquet, ramsey, multi-qubit-blockaded)
C9_CompleteExamples == ex \in {"floquet", "ramsey", "multi-qubit-blockaded"} => GuardedRuns

C9_Witness ==
    /\ ex \in {"floquet", "ramsey", "multi-qubit-blockaded"}
    /\ epc = "done"
    /\ seen["job"] = "present"
    /\ seen["emulation"] = "absent"
    /\ emu_runs = 1
    /\ submits = 0
    /\ dfiles[<<ex, "job">>] = "placed"
    /\ dfiles[<<ex, "emulation">>] = "saved"
    /\ loaded = {<<ex, "emulation">>, <<ex, "job">>}

(***************************************************************************)
(* Properties of the migration run, checked under FairSpec.                *)
(***************************************************************************)
\* the files the run began with whose names match *.json
Matched(name) ==
    /\ disk0[name].exists
    /\ Len(name) > Len(JsonExt)
    /\ name[1] # "."
    /\ SubSeq(name, Len(name) - Len(JsonExt) + 1, Len(name)) = JsonExt

Cycle == <<"read", "walk", "open_w", "write">>

\* the log is the files' cycles one after the other, in the order of files:
\* read, walk, open for writing, write of one file, then the next file's
LogSequential ==
    \A p \in 1..Len(log) :
        /\ log[p].file = files[((p - 1) \div Len(Cycle)) + 1]
        /\ \/ log[p].op = Cycle[((p - 1) % Len(Cycle)) + 1]
           \/ log[p].op = "error" /\ (p - 1) % Len(Cycle) = 0 /\ p = Len(log)
           \/ log[p].op = "open_error" /\ (p - 1) % Len(Cycle) = 2 /\ p = Len(log)
           \/ log[p].op = "write_error" /\ (p - 1) % Len(Cycle) = 3 /\ p = Len(log)

WritesOf(name) == {p \in 1..Len(log) : log[p].op = "write" /\ log[p].file = name}

\* a file that is not matched is never touched
OthersUntouched ==
    \A n \in Names :
        ~Matched(n) => disk[n] = disk0[n] /\ \A p \in 1..Len(log) : log[p].file # n

\* at the end of a run with no error every matched file was written exactly
\* once, and holds the dump of walk of what it held
AllWrittenOnce ==
    pc = "done" =>
        \A n \in Names :
            Matched(n) =>
                /\ Cardinality(WritesOf(n)) = 1
                /\ disk[n] = File(Dump(walk(JsonLoad(disk0[n].text).val)))

C10_Safe == LogSequential /\ OthersUntouched /\ AllWrittenOnce

\* C10: the run handles the matched files one at a time, each file's read,
\* walk and write done before the next file's read; a run with no error
\* writes every matched file exactly once to its own path; no other file is
\* written; and the run ends
C10_SequentialRun == [](C10_Safe) /\ <>(pc \in {"done", "failed"})

C10_Witness ==
    /\ pc = "done"
    /\ Len(files) = 2
    /\ Len(log) = 2 * Len(Cycle)
    /\ \E n \in OtherNames : disk0[n].exists
    /\ \A k \in 1..Len(files) : disk[files[k]] # disk0[files[k]]

(***************************************************************************)
(* Properties of a failing migration run, checked under Spec.              *)
(***************************************************************************)
\* what the run writes into a file it rewrites
Rewritten(name) == File(Dump(walk(JsonLoad(disk0[name].text).val)))

EventsOf(name) == {p \in 1..Len(log) : log[p].file = name}

\* C11: a parse error ends the run at that file: the run has stopped, the
\* file that does not parse is as it was and was never opened for writing,
\* no later file of the list was read or written, and the files before it
\* stay rewritten; and no file that does not parse is ever read with success
C11_ParseErrorFatal ==
    /\ \A p \in 1..Len(log) :
           log[p].op = "error" =>
               /\ p = Len(log)
               /\ pc = "failed"
               /\ ~ENABLED MigrateNext
               /\ log[p].file = files[cur]
               /\ ~JsonLoad(disk0[files[cur]].text).ok
               /\ disk[files[cur]] = disk0[files[cur]]
               /\ \A q \in EventsOf(files[cur]) : q = p
               /\ \A j \in (cur + 1)..Len(files) :
                      disk[files[j]] = disk0[files[j]] /\ EventsOf(files[j]) = {}
               /\ \A j \in 1..(cur - 1) : disk[files[j]] = Rewritten(files[j])
    /\ \A p \in 1..Len(log) :
           log[p].op = "read" => JsonLoad(disk0[log[p].file].text).ok

C11_Witness ==
    /\ pc = "failed"
    /\ log # <<>>
    /\ log[Len(log)].op = "error"
    /\ Len(files) = 2
    /\ cur = 2
    /\ disk[files[1]] = Rewritten(files[1])
    /\ disk[files[1]] # disk0[files[1]]
    /\ disk[files[2]] = disk0[files[2]]

HasOp(name, op) == \E p \in 1..Len(log) : log[p].file = name /\ log[p].op = op

\* text is a beginning of whole, and not all of it
ProperPrefix(text, whole) ==
    Len(text) < Len(whole) /\ SubSeq(whole, 1, Len(text)) = text

\* C12: a file is opened for writing only after its read and its walk are
\* done; a file not opened for writing is as it was, so a failure before the
\* write-open leaves it unmodified; a failure after the write-open leaves the
\* file with none or a part of its new text, and no file of the directory is
\* created that could keep the old text; at all times a file holds its old
\* text, its new text, or (while or after a failed write) a beginning of its
\* new text, never a mix of old and new
C12_WriteAfterTransform ==
    /\ \A p \in 1..Len(log) :
           log[p].op \in {"open_w", "open_error"} =>
               /\ p >= 3
               /\ log[p - 2] = [op |-> "read", file |-> log[p].file]
               /\ log[p - 1] = [op |-> "walk", file |-> log[p].file]
               /\ p = Len(log) => new_data = walk(JsonLoad(disk0[log[p].file].text).val)
    /\ \A n \in Names :
           /\ ~HasOp(n, "open_w") => disk[n] = disk0[n]
           /\ disk[n].exists = disk0[n].exists
    /\ (pc = "failed" /\ HasOp(files[cur], "open_w")) =>
           /\ ProperPrefix(disk[files[cur]].text, Rewritten(files[cur]).text)
           /\ \A n \in Names : n # files[cur] /\ ~HasOp(n, "write") => disk[n] = disk0[n]
    /\ \A n \in Names :
           \/ disk[n] = disk0[n]
           \/ disk[n] = Rewritten(n)
           \/ /\ pc \in {"dump", "failed"}
              /\ n = files[cur]
              /\ HasOp(n, "open_w")
              /\ ProperPrefix(disk[n].text, Rewritten(n).text)

C12_Witness ==
    /\ pc = "failed"
    /\ log # <<>>
    /\ log[Len(log)].op = "write_error"
    /\ disk[files[cur]].text # <<>>
    /\ disk[files[cur]] # disk0[files[cur]]
    /\ ~JsonLoad(disk[files[cur]].text).ok
    /\ JsonLoad(disk0[files[cur]].text).ok
    /\ \A n \in Names : disk[n].text # disk0[files[cur]].text

====
